---------------------------- MODULE Spec2Model ----------------------------
(***************************************************************************)
(* Model of functions/tips/main.py: the two event-driven background        *)
(* functions avoid_infinite_retries (lines 143-156) and retry_or_not       *)
(* (lines 164-177), run by a delivery system that redelivers an event when *)
(* the function ends with an uncaught exception, and the HTTP functions    *)
(* lazy_globals, connection_pooling, gcp_api_call and get_log_entries with *)
(* the module-level globals they share.                                    *)
(*                                                                         *)
(* Time is counted in milliseconds.  A timestamp string is abstracted to   *)
(* its form (what dateutil makes of it) and the instant it denotes.        *)
(***************************************************************************)
EXTENDS Integers, Sequences, FiniteSets

\* ------------------------------------------------------------------ bounds
\* The wall clock takes the values k * (MaxAgeMs / 2) + d, k <= MaxGrid, d <= 1.
MaxGrid == 3
\* The delivery system delivers one event at most MaxAttempts times.
MaxAttempts == 2

\* --------------------------------------------------------------- constants
\* main.py:150  "if event_age > 10000"
MaxAgeMs == 10000

\* Concurrent function instances (each handles one delivery at a time).
Procs == {"p1", "p2"}

\* context.event_id values.
EventIds == {"e1", "e2"}

\* Values of the wall clock, datetime.now() (naive local time).
ClockValues ==
    {k * (MaxAgeMs \div 2) + d : k \in 0..MaxGrid, d \in {0, 1}}

\* event.timestamp strings: an ISO string without UTC offset ("iso"), an ISO
\* string with offset such as a trailing Z ("iso_z"), or text that is no date.
Timestamps ==
    [form : {"iso"}, ms : {0, MaxAgeMs + 1}]
        \cup [form : {"iso_z", "garbage"}, ms : {0}]

\* What event.data.get('retry') can return ("absent": no such key -> None).
RetryValues == {"absent", "False", "True", "0", "1"}

\* Exceptions that can leave a function, and its normal return values.
Failures == {"ParserError", "TypeError", "Exception", "ReportError"}
Returns == {"Timeout", "None"}

\* How an HTTP function ends: with its response text, or with an exception
\* of the library call it makes (an HTTP error status, a missing 'topic' key,
\* an API error).
HttpOutcomes == {"Response", "Error"}

\* The module-level client objects (lines 87, 113, 161, 182).
ClientNames == {"session", "publisher", "error_client", "logging_client"}

\* Python's None, and a Python value v, as the value of a global.
None == << >>
Value(v) == << v >>

VARIABLES
    now,              \* the wall clock
    inv,              \* inv[p]: the invocation that instance p runs or ran last
    lazy_global,      \* main.py:62
    non_lazy_global,  \* main.py:59
    computed,         \* calls of function_specific_computation so far
    clients           \* clients[c]: how many objects were ever bound to global c

globals == <<lazy_global, non_lazy_global, computed, clients>>

vars == <<now, inv, lazy_global, non_lazy_global, computed, clients>>

\* main.py:50, 54  sum(range(n))
RECURSIVE SumRange(_)
SumRange(n) == IF n <= 0 THEN 0 ELSE (n - 1) + SumRange(n - 1)

\* main.py:49-50
file_wide_computation == SumRange(10)

\* main.py:53-54
function_specific_computation == SumRange(10)

\* Variant of Falsy: the cached value is never trusted.
FalsyAlways(g) == TRUE

\* main.py:78  "not lazy_global": None and 0 are both false.
Falsy(g) == g = None \/ g = Value(0)

\* Variant of UseClient: the handler constructs its own client and binds it
\* to the global.
UseClientFresh(cl, c) == [cl EXCEPT ![c] = @ + 1]

\* main.py:105, 132-136, 173, 199  a handler uses the module-level client c:
\* it reads the global and neither constructs a client nor rebinds the name.
UseClient(cl, c) == cl

\* ------------------------------------------------------- pure code pieces

\* main.py:146  parser.parse(timestamp): fails on text that is no date;
\* yields an offset-aware datetime exactly when the string carries an offset.
ParseTimestamp(ts) ==
    [ok |-> ts.form # "garbage", aware |-> ts.form = "iso_z", ms |-> ts.ms]

\* main.py:147  datetime.now() is naive; naive - aware raises TypeError.
CanSubtract(event_time) == ~event_time.aware

\* Variant of EventAge: the distance between the two times, sign dropped.
EventAgeAbs(nowRead, event_time) ==
    IF nowRead >= event_time.ms THEN nowRead - event_time.ms
    ELSE event_time.ms - nowRead

\* main.py:147  (datetime.now() - event_time).total_seconds() * 1000
EventAge(nowRead, event_time) == nowRead - event_time.ms

\* Variant of TooOld: threshold off by one millisecond.
TooOldOffByOne(event_age) == event_age > MaxAgeMs + 1

\* Variant of TooOld: the age is taken for seconds, not milliseconds.
TooOldInSeconds(event_age) == event_age > MaxAgeMs * 1000

\* Variant of TooOld: >= in place of >.
TooOldInclusive(event_age) == event_age >= MaxAgeMs

\* main.py:150  if event_age > 10000
TooOld(event_age) == event_age > MaxAgeMs

\* Variant of Prints: the drop branch falls through into the processing branch.
PrintsFallThrough(event_id, event_age) ==
    IF event_age > MaxAgeMs
    THEN << [tag |-> "Dropped", event_id |-> event_id, age |-> event_age],
            [tag |-> "Processed", event_id |-> event_id, age |-> event_age] >>
    ELSE << [tag |-> "Processed", event_id |-> event_id, age |-> event_age] >>

\* main.py:150-156  the lines printed by one call.
Prints(event_id, event_age) ==
    IF TooOld(event_age)
    THEN << [tag |-> "Dropped", event_id |-> event_id, age |-> event_age] >>
    ELSE << [tag |-> "Processed", event_id |-> event_id, age |-> event_age] >>

\* main.py:150-156  the value returned by one call.
ReturnValue(event_age) == IF TooOld(event_age) THEN "Timeout" ELSE "None"

\* Python truth value of event.data.get('retry').
Truthy(v) == v \in {"True", "1"}

\* Variant of TryAgain: the flag is kept in a place all deliveries share,
\* so a delivery sees the flag of whichever delivery set it.
TryAgainShared(p) == \E q \in Procs : Truthy(inv[q].retry)

\* Variant of TryAgain: retry is granted on the first delivery only.
TryAgainFirstAttempt(p) == Truthy(inv[p].retry) /\ inv[p].attempt = 1

\* main.py:165-168  try_again, a function of the payload alone.
TryAgain(p) == Truthy(inv[p].retry)

\* Variant of Reported: the report call is left out.
ReportedNever(n) == n

\* main.py:173  the calls received by the sink after this
\* error_client.report_exception(), n calls having been made before.
Reported(n) == n + 1

\* Variant of Decision: the exception is always swallowed.
DecisionSwallow(try_again) == "None"

\* main.py:174-177  raise e, or return.
Decision(try_again) == IF try_again THEN "Exception" ELSE "None"

\* ------------------------------------------------------------------ state

IdleRec ==
    [fn |-> "none", pc |-> "idle",
     timestamp |-> [form |-> "iso", ms |-> 0], event_id |-> "e1",
     retry |-> "absent", attempt |-> 0, cause |-> "none",
     event_time |-> [ok |-> FALSE, aware |-> FALSE, ms |-> 0],
     now_read |-> 0, event_age |-> 0,
     try_again |-> FALSE, sink |-> "unused",
     printed |-> << >>, reports |-> 0, result |-> "none",
     chain |-> FALSE, response |-> << >>]

\* The state after the module is imported (cold start): lines 59, 62 and the
\* four client constructors at lines 87, 113, 161, 182 have run once.
Init ==
    /\ now = 0
    /\ inv = [p \in Procs |-> IdleRec]
    /\ lazy_global = None
    /\ non_lazy_global = Value(file_wide_computation)
    /\ computed = 0
    /\ clients = [c \in ClientNames |-> 1]

Free(p) == inv[p].pc \in {"idle", "done"}

\* The function ends: with a return value or with an exception.
Finish(r, outcome) == [r EXCEPT !.pc = "done", !.result = outcome]

\* ----------------------------------------------------------- environment

\* The wall clock advances.
Tick ==
    /\ \E v \in ClockValues : v > now /\ now' = v
    /\ UNCHANGED <<inv, globals>>

\* A first delivery of an event to avoid_infinite_retries.
InvokeAvoid(p) ==
    /\ Free(p)
    /\ \E ts \in Timestamps, id \in EventIds :
         inv' = [inv EXCEPT ![p] =
                   [IdleRec EXCEPT !.fn = "avoid_infinite_retries", !.pc = "l146",
                                   !.timestamp = ts, !.event_id = id,
                                   !.attempt = 1]]
    /\ UNCHANGED <<now, globals>>

\* A first delivery of an event to retry_or_not.
InvokeRetry(p) ==
    /\ Free(p)
    /\ \E d \in RetryValues :
         inv' = [inv EXCEPT ![p] =
                   [IdleRec EXCEPT !.fn = "retry_or_not", !.pc = "l165",
                                   !.retry = d, !.attempt = 1]]
    /\ UNCHANGED <<now, globals>>

\* main.py:175 "Raise the exception and try again": a function that ends
\* with an uncaught exception gets the same event delivered again.
Redeliver(p) ==
    /\ inv[p].pc = "done"
    /\ inv[p].result \in Failures
    /\ inv[p].attempt < MaxAttempts
    /\ inv' = [inv EXCEPT ![p] =
                 [IdleRec EXCEPT !.fn = inv[p].fn,
                                 !.pc = IF inv[p].fn = "retry_or_not"
                                        THEN "l165" ELSE "l146",
                                 !.timestamp = inv[p].timestamp,
                                 !.event_id = inv[p].event_id,
                                 !.retry = inv[p].retry,
                                 !.attempt = inv[p].attempt + 1,
                                 !.cause = inv[p].result]]
    /\ UNCHANGED <<now, globals>>

\* ------------------------------------------------ avoid_infinite_retries

\* main.py:144-146
Parse(p) ==
    /\ inv[p].pc = "l146"
    /\ LET et == ParseTimestamp(inv[p].timestamp)
       IN  inv' = [inv EXCEPT ![p] =
                     IF et.ok
                     THEN [@ EXCEPT !.event_time = et, !.pc = "l147"]
                     ELSE Finish(@, "ParserError")]
    /\ UNCHANGED <<now, globals>>

\* main.py:147
Age(p) ==
    /\ inv[p].pc = "l147"
    /\ inv' = [inv EXCEPT ![p] =
                 IF CanSubtract(inv[p].event_time)
                 THEN [inv[p] EXCEPT !.now_read = now,
                                     !.event_age = EventAge(now, inv[p].event_time),
                                     !.pc = "l150"]
                 ELSE Finish(inv[p], "TypeError")]
    /\ UNCHANGED <<now, globals>>

\* main.py:150-156
Check(p) ==
    /\ inv[p].pc = "l150"
    /\ inv' = [inv EXCEPT ![p] =
                 Finish([inv[p] EXCEPT !.printed =
                                 @ \o Prints(inv[p].event_id, inv[p].event_age)],
                        ReturnValue(inv[p].event_age))]
    /\ UNCHANGED <<now, globals>>

\* ----------------------------------------------------------- retry_or_not

\* main.py:165-168
ReadRetry(p) ==
    /\ inv[p].pc = "l165"
    /\ inv' = [inv EXCEPT ![p] = [@ EXCEPT !.try_again = TryAgain(p), !.pc = "l171"]]
    /\ UNCHANGED <<now, globals>>

\* Variant of HandlerFails: the body overwrites try_again before it fails.
HandlerFailsClobbers(p) ==
    /\ inv[p].pc = "l171"
    /\ inv' = [inv EXCEPT ![p] = [@ EXCEPT !.pc = "l173", !.try_again = FALSE]]
    /\ UNCHANGED <<now, globals>>

\* main.py:170-172  the body raises, control enters the except block.
HandlerFails(p) ==
    /\ inv[p].pc = "l171"
    /\ inv' = [inv EXCEPT ![p] = [@ EXCEPT !.pc = "l173"]]
    /\ UNCHANGED <<now, globals>>

\* main.py:173  the report call is made; the sink answers or the call raises,
\* and an exception raised here leaves the function (nothing catches it).
Report(p) ==
    /\ inv[p].pc = "l173"
    /\ \E ok \in BOOLEAN :
         inv' = [inv EXCEPT ![p] =
                   LET r == [inv[p] EXCEPT !.reports = Reported(@),
                                      !.sink = IF ok THEN "ok" ELSE "failed"]
                   IN  IF ok THEN [r EXCEPT !.pc = "l174"]
                       ELSE Finish(r, "ReportError")]
    /\ clients' = UseClient(clients, "error_client")
    /\ UNCHANGED <<now, lazy_global, non_lazy_global, computed>>

\* main.py:174-177
Decide(p) ==
    /\ inv[p].pc = "l174"
    /\ inv' = [inv EXCEPT ![p] = Finish(@, Decision(inv[p].try_again))]
    /\ UNCHANGED <<now, globals>>


\* ----------------------------------------------------------- lazy_globals

\* An HTTP request for lazy_globals arrives.
InvokeLazy(p) ==
    /\ Free(p)
    /\ inv' = [inv EXCEPT ![p] = [IdleRec EXCEPT !.fn = "lazy_globals", !.pc = "l78"]]
    /\ UNCHANGED <<now, globals>>

\* The same, when requests are served one after the other: no other
\* invocation of lazy_globals is in progress.
InvokeLazySeq(p) ==
    /\ \A q \in Procs : inv[q].fn = "lazy_globals" => inv[q].pc = "done"
    /\ InvokeLazy(p)

\* main.py:78  if not lazy_global
LazyTest(p) ==
    /\ inv[p].fn = "lazy_globals" /\ inv[p].pc = "l78"
    /\ inv' = [inv EXCEPT ![p] =
                 [@ EXCEPT !.pc = IF Falsy(lazy_global) THEN "l79" ELSE "l81"]]
    /\ UNCHANGED <<now, globals>>

\* main.py:79  lazy_global = function_specific_computation()
LazyInit(p) ==
    /\ inv[p].fn = "lazy_globals" /\ inv[p].pc = "l79"
    /\ lazy_global' = Value(function_specific_computation)
    /\ computed' = computed + 1
    /\ inv' = [inv EXCEPT ![p] = [@ EXCEPT !.pc = "l81"]]
    /\ UNCHANGED <<now, non_lazy_global, clients>>

\* main.py:81  return 'Lazy: {}, non-lazy: {}.'.format(lazy_global, non_lazy_global)
LazyReturn(p) ==
    /\ inv[p].fn = "lazy_globals" /\ inv[p].pc = "l81"
    /\ inv' = [inv EXCEPT ![p] =
                 Finish([inv[p] EXCEPT !.response = <<lazy_global, non_lazy_global>>],
                        "Response")]
    /\ UNCHANGED <<now, globals>>

\* ------------------------- connection_pooling, gcp_api_call, get_log_entries

\* An HTTP function that works through the module-level client c.
HttpCall(p, f, c) ==
    /\ \E out \in HttpOutcomes :
         inv' = [inv EXCEPT ![p] = Finish([IdleRec EXCEPT !.fn = f], out)]
    /\ clients' = UseClient(clients, c)
    /\ UNCHANGED <<now, lazy_global, non_lazy_global, computed>>

\* main.py:90-107
ConnectionPooling(p) ==
    /\ Free(p)
    /\ HttpCall(p, "connection_pooling", "session")

\* main.py:116-138
GcpApiCall(p) ==
    /\ Free(p)
    /\ HttpCall(p, "gcp_api_call", "publisher")

\* main.py:187-207
GetLogEntries(p) ==
    /\ Free(p)
    /\ HttpCall(p, "get_log_entries", "logging_client")

Next ==
    \/ Tick
    \/ \E p \in Procs : InvokeAvoid(p)
    \/ \E p \in Procs : InvokeRetry(p)
    \/ \E p \in Procs : Redeliver(p)
    \/ \E p \in Procs : Parse(p)
    \/ \E p \in Procs : Age(p)
    \/ \E p \in Procs : Check(p)
    \/ \E p \in Procs : ReadRetry(p)
    \/ \E p \in Procs : HandlerFails(p)
    \/ \E p \in Procs : Report(p)
    \/ \E p \in Procs : Decide(p)
    \/ \E p \in Procs : ConnectionPooling(p)
    \/ \E p \in Procs : GcpApiCall(p)
    \/ \E p \in Procs : GetLogEntries(p)

Spec == Init /\ [][Next]_vars

\* The HTTP functions, requests served concurrently.
LazyNext ==
    \/ \E p \in Procs : InvokeLazy(p)
    \/ \E p \in Procs : LazyTest(p)
    \/ \E p \in Procs : LazyInit(p)
    \/ \E p \in Procs : LazyReturn(p)
    \/ \E p \in Procs : ConnectionPooling(p)
    \/ \E p \in Procs : GcpApiCall(p)
    \/ \E p \in Procs : GetLogEntries(p)

LazySpec == Init /\ [][LazyNext]_vars

\* The HTTP functions, invocations of lazy_globals not overlapping.
LazySeqNext ==
    \/ \E p \in Procs : InvokeLazySeq(p)
    \/ \E p \in Procs : LazyTest(p)
    \/ \E p \in Procs : LazyInit(p)
    \/ \E p \in Procs : LazyReturn(p)
    \/ \E p \in Procs : ConnectionPooling(p)
    \/ \E p \in Procs : GcpApiCall(p)
    \/ \E p \in Procs : GetLogEntries(p)

LazySeqSpec == Init /\ [][LazySeqNext]_vars


\* --------------------------------------- admission before the handler
\* The hosting runtime of the caller contract: on every delivery attempt it
\* runs the admission step first, runs the failing handler with its
\* classifier only when the event was admitted, and redelivers the event
\* when the attempt ends with an exception.

\* The instances that serve such deliveries.
ChainProcs == {"p1"}

\* A first delivery of an event carrying both a timestamp and a retry flag,
\* once the previous event is settled (dropped, or its failure suppressed).
InvokeChain(p) ==
    /\ \/ inv[p].pc = "idle"
       \/ inv[p].pc = "done" /\ inv[p].result = "Timeout"
       \/ inv[p].pc = "done" /\ inv[p].fn = "retry_or_not" /\ inv[p].result = "None"
    /\ \E ts \in Timestamps, d \in RetryValues :
         inv' = [inv EXCEPT ![p] =
                   [IdleRec EXCEPT !.fn = "avoid_infinite_retries", !.pc = "l146",
                                   !.timestamp = ts, !.retry = d,
                                   !.attempt = 1, !.chain = TRUE]]
    /\ UNCHANGED <<now, globals>>

\* The event was admitted (Process): the handler body runs next.
Handoff(p) ==
    /\ inv[p].chain
    /\ inv[p].fn = "avoid_infinite_retries" /\ inv[p].pc = "done"
    /\ inv[p].result = "None"
    /\ inv' = [inv EXCEPT ![p] =
                 [@ EXCEPT !.fn = "retry_or_not", !.pc = "l165", !.result = "none"]]
    /\ UNCHANGED <<now, globals>>

\* The attempt ended with an exception: the same event is delivered again,
\* as often as it takes (the attempt counter stops at MaxAttempts).
RedeliverChain(p) ==
    /\ inv[p].chain
    /\ inv[p].pc = "done"
    /\ inv[p].result \in Failures
    /\ inv' = [inv EXCEPT ![p] =
                 [IdleRec EXCEPT !.fn = "avoid_infinite_retries", !.pc = "l146",
                                 !.timestamp = inv[p].timestamp,
                                 !.retry = inv[p].retry,
                                 !.attempt = IF inv[p].attempt < MaxAttempts
                                             THEN inv[p].attempt + 1
                                             ELSE inv[p].attempt,
                                 !.cause = inv[p].result,
                                 !.chain = TRUE]]
    /\ UNCHANGED <<now, globals>>

\* One step of the delivery in progress on p.
ChainStep(p) ==
    \/ Parse(p)
    \/ Age(p)
    \/ Check(p)
    \/ Handoff(p)
    \/ ReadRetry(p)
    \/ HandlerFails(p)
    \/ Report(p)
    \/ Decide(p)
    \/ RedeliverChain(p)

ChainNext ==
    \/ Tick
    \/ \E p \in ChainProcs : InvokeChain(p)
    \/ \E p \in ChainProcs : ChainStep(p)

\* The clock advances, a started attempt runs to its end and a failed
\* attempt is redelivered.
ChainSpec ==
    /\ Init
    /\ [][ChainNext]_vars
    /\ WF_vars(Tick)
    /\ \A p \in ChainProcs : WF_vars(ChainStep(p))

TypeOK ==
    /\ now \in ClockValues
    /\ \A p \in Procs :
         /\ inv[p].pc \in {"idle", "l146", "l147", "l150",
                           "l165", "l171", "l173", "l174",
                           "l78", "l79", "l81", "done"}
         /\ inv[p].result \in {"none"} \cup Failures \cup Returns \cup HttpOutcomes
         /\ inv[p].attempt \in 0..MaxAttempts

\* ------------------------------------------------------------- properties

Avoid(p) == inv[p].fn = "avoid_infinite_retries"
Retry(p) == inv[p].fn = "retry_or_not"
Done(p) == inv[p].pc = "done"

\* The call has an age: its timestamp parses and can be subtracted from now.
\* (An "iso_z" timestamp raises TypeError at line 147, before any age exists.)
HasAge(p) == Avoid(p) /\ Done(p) /\ inv[p].timestamp.form = "iso"

\* age_ms of the inputs: now - event.timestamp.
AgeMs(p) == inv[p].now_read - inv[p].timestamp.ms

Tags(p) == {inv[p].printed[i].tag : i \in 1..Len(inv[p].printed)}

C5_RetryFalseSuppresses ==
    \A p \in Procs :
        (Retry(p) /\ Done(p) /\ inv[p].retry = "False")
            => /\ inv[p].result = "None"
               /\ inv[p].reports = 1

\* C6: when the report call itself failed, the delivery still ended with the
\* decision that retry alone determines (normal return when falsy, the
\* handler's exception re-raised when truthy), and the report failure did
\* not reach the delivery system.
C6_SinkFailureIsolated ==
    \A p \in Procs :
        (Retry(p) /\ Done(p) /\ inv[p].sink = "failed")
            => /\ inv[p].result = (IF Truthy(inv[p].retry) THEN "Exception" ELSE "None")
               /\ inv[p].result # "ReportError"

\* C7: a delivery ends with an exception raised to the delivery system only
\* by the Propagate decision of retry_or_not (handler failed, retry truthy,
\* line 175); every other delivery ends with a normal return.
C7_OnlyPropagateEscapes ==
    \A p \in Procs :
        (Done(p) /\ inv[p].result \in Failures)
            => /\ Retry(p)
               /\ inv[p].try_again
               /\ inv[p].result = "Exception"

\* C8: a call whose timestamp cannot be parsed ends in the malformed-timestamp
\* error, and no delivery is ever a redelivery caused by that error.
C8_MalformedNeverRedelivered ==
    \A p \in Procs :
        /\ (Avoid(p) /\ Done(p) /\ inv[p].timestamp.form = "garbage")
               => inv[p].result = "ParserError"
        /\ inv[p].cause # "ParserError"

ExpectedRecord(p) ==
    [tag |-> IF inv[p].result = "Timeout" THEN "Dropped" ELSE "Processed",
     event_id |-> inv[p].event_id,
     age |-> AgeMs(p)]

Running(p) == Retry(p) /\ inv[p].pc \in {"l165", "l171"}
Failed(p) == Retry(p) /\ inv[p].pc = "l173"
IsReported(p) == Retry(p) /\ inv[p].pc = "l174"
Decided(p) == Retry(p) /\ Done(p) /\ inv[p].result \in {"Exception", "None"}

\* C11: retry_or_not moves Running -> Failed -> Reported -> Decided in that
\* order: a delivery enters Decided only from Reported, enters Reported only
\* from Failed and enters Failed only from Running, and whenever it is
\* Reported or Decided the sink has received its report call.
C11_ReportThenDecide ==
    /\ [](\A p \in Procs : (IsReported(p) \/ Decided(p)) => inv[p].reports = 1)
    /\ [][\A p \in Procs :
            /\ (Decided(p)' /\ ~Decided(p)) => IsReported(p)
            /\ (IsReported(p)' /\ ~IsReported(p)) => Failed(p)
            /\ (Failed(p)' /\ ~Failed(p)) => Running(p)]_vars

\* C11 witness: a delivery is Decided{Suppress} after its one report call.
C11_Witness ==
    \E p \in Procs : Decided(p) /\ inv[p].result = "None" /\ inv[p].reports = 1

\* C12: try_again holds the payload's retry value before the handler body
\* starts (line 171), no later step of the delivery changes it or the
\* payload, and a decision, when taken, is the one that value selects.
C12_CapturedBeforeHandler ==
    /\ [](\A p \in Procs :
            /\ (Retry(p) /\ inv[p].pc \in {"l171", "l173", "l174", "done"})
                   => inv[p].try_again = Truthy(inv[p].retry)
            /\ Decided(p)
                   => inv[p].result = (IF Truthy(inv[p].retry) THEN "Exception" ELSE "None"))
    /\ [][\A p \in Procs :
            (Retry(p) /\ inv[p].pc \in {"l171", "l173", "l174"})
                => /\ inv[p].try_again' = inv[p].try_again
                   /\ inv[p].retry' = inv[p].retry]_vars

\* C12 witness: a delivery that captured retry = true was Decided{Propagate}.
C12_Witness ==
    \E p \in Procs :
        Decided(p) /\ inv[p].retry = "True" /\ inv[p].try_again
                   /\ inv[p].result = "Exception"

Lazy(p) == inv[p].fn = "lazy_globals"

\* C13: with invocations of lazy_globals running concurrently,
\* function_specific_computation is executed at most once in total and all
\* finished invocations returned the same value.
C13_SingleFlight ==
    /\ computed <= 1
    /\ \A p, q \in Procs :
         (Lazy(p) /\ Done(p) /\ Lazy(q) /\ Done(q))
             => inv[p].response = inv[q].response

\* C14: with invocations of lazy_globals not overlapping, lazy_global is None
\* exactly as long as no invocation has got past line 78-79, it is computed
\* once (by the first invocation) and no step changes it afterwards;
\* non_lazy_global holds its cold-start value throughout.
C14_LazyOnceNonLazyFixed ==
    /\ [](/\ (lazy_global = None) <=> (computed = 0)
          /\ lazy_global = None
                 => \A p \in Procs : Lazy(p) => inv[p].pc \in {"l78", "l79"}
          /\ computed <= 1
          /\ non_lazy_global # None)
    /\ [][/\ lazy_global # None => (lazy_global' = lazy_global /\ computed' = computed)
          /\ non_lazy_global' = non_lazy_global]_vars

\* C14 witness: two invocations have finished and the computation ran once.
C14_Witness ==
    \E p, q \in Procs :
        /\ p # q /\ Lazy(p) /\ Done(p) /\ Lazy(q) /\ Done(q)
        /\ computed = 1 /\ lazy_global # None

\* The clock of the model gets far enough for the event to expire.
Expirable(ts) == \E v \in ClockValues : v - ts.ms > MaxAgeMs

AloneResult(p) ==
    IF Avoid(p)
    THEN CASE inv[p].timestamp.form = "garbage" -> "ParserError"
           [] inv[p].timestamp.form = "iso_z" -> "TypeError"
           [] OTHER -> IF AgeMs(p) > MaxAgeMs THEN "Timeout" ELSE "None"
    ELSE IF inv[p].sink = "failed" THEN "ReportError"
         ELSE IF inv[p].retry \in {"True", "1"} THEN "Exception" ELSE "None"

\* C16: however deliveries interleave, each finished delivery of
\* avoid_infinite_retries or retry_or_not ended as it would have alone on its
\* own inputs, and a step of one delivery changes neither another delivery
\* nor any module-level global.
C16_InterleavingIndependent ==
    /\ [](\A p \in Procs :
            (Done(p) /\ (Avoid(p) \/ Retry(p))) => inv[p].result = AloneResult(p))
    /\ [][\A p \in Procs :
            ((Avoid(p) \/ Retry(p)) /\ ~Done(p) /\ inv[p]' # inv[p])
                => /\ \A q \in Procs \ {p} : inv[q]' = inv[q]
                   /\ lazy_global' = lazy_global
                   /\ non_lazy_global' = non_lazy_global
                   /\ clients' = clients]_vars

\* C16 witness: one delivery was Decided{Propagate} while another, with
\* retry = false, was still in its except block.
C16_Witness ==
    \E p, q \in Procs :
        /\ p # q
        /\ Decided(p) /\ inv[p].retry = "True" /\ inv[p].result = "Exception"
        /\ Failed(q) /\ inv[q].retry = "False"

\* C17: each module-level client was constructed once, at import, and no
\* invocation of connection_pooling, gcp_api_call, retry_or_not or
\* get_log_entries constructs another or rebinds the global.
C17_ClientsConstructedOnce ==
    /\ [](\A c \in ClientNames : clients[c] = 1)
    /\ [][clients' = clients]_vars

\* C17 witness: connection_pooling has answered on one instance and
\* retry_or_not has made its report call on the other.
C17_Witness ==
    \E p, q \in Procs :
        /\ inv[p].fn = "connection_pooling" /\ Done(p) /\ inv[p].result = "Response"
        /\ Retry(q) /\ inv[q].reports = 1
        /\ \A c \in ClientNames : clients[c] = 1

\* C18: a finished delivery of retry_or_not whose payload has no 'retry' key
\* or a falsy value had try_again = False, made one report call and returned
\* normally; a delivery that re-raised at line 175 had a truthy value.
C18_FalsyRetrySuppresses ==
    \A p \in Procs :
        (Retry(p) /\ Done(p))
            => /\ inv[p].retry \in {"absent", "False", "0"}
                   => /\ ~inv[p].try_again
                      /\ inv[p].reports = 1
                      /\ inv[p].result = "None"
               /\ inv[p].result = "Exception" => inv[p].retry \in {"True", "1"}
=============================================================================
